---- MODULE Spec2Model ----
\* Order / cart / wishlist / review / catalog / account logic of the
\* commercia backend (api/models.py, api/signals.py, api/services/cart.py,
\* api/serializers/*, api/views.py, api/admin.py, accounts/managers.py),
\* modelled as operations on the persisted rows.
EXTENDS Integers, Sequences, FiniteSets, TLC

\* ------------------------------------------------------------------ bounds
MaxItemId == 2     \* OrderItem auto-increment ids handed out by the model
MaxCartQty == 2    \* cart item quantities are kept within 1..MaxCartQty
MaxReviewId == 3   \* Review ids handed out by the model

\* ------------------------------------------------------------- value sets
Products == {"p1", "p2"}
Users == {"u1", "u2", "u3"}
OrderIds == {"o1", "o2"}
Prices == {1, 2}
Quantities == {1, 2}

\* Order.STATUS_CHOICES
STATUS_CHOICES == {"pending", "processing", "shipped", "delivered", "canceled"}
\* the statuses requests of the model supply (the default and one other)
RequestStatuses == {"pending", "shipped"}

\* User.is_staff: the administrators among Users
is_staff(u) == u = "u2"

VARIABLES
    price,        \* Product.price, per product
    orders,       \* Order rows: order_id -> [exists, user, status, total_amount]
    orderitems,   \* OrderItem rows: [id, order, product, quantity, price_at_order]
    nextItemId,   \* next auto-increment id of OrderItem
    carts,        \* Cart rows: [cart_id, user, cart_code]
    cartitems,    \* CartItem rows: [cart, product, quantity, is_active]
    wishlists,    \* Wishlist rows: user -> [exists, products]
    last,         \* the last completed request: what ran and how it ended
    toggles,      \* history: the run of wishlist requests for one (user, product)
    reviews,      \* Review rows: [id, product, rating]
    nextReviewId, \* next id of Review
    ratings,      \* ProductRating rows: product -> [exists, average, total_ratings]
    response,     \* what the last read request returned: [rows, total]
    catalog,      \* Product / Category rows: [model, id, name, slug]
    accounts,     \* User rows: [email, is_active, is_staff, is_superuser, password]
    procs         \* requests in flight: worker -> [pc, ...], its position and locals

vars == <<price, orders, orderitems, nextItemId, carts, cartitems, wishlists,
          last, toggles, reviews, nextReviewId, ratings, response,
          catalog, accounts, procs>>
reviewVars == <<reviews, nextReviewId, ratings>>
orderVars == <<price, orders, orderitems, nextItemId>>
cartVars == <<carts, cartitems>>
\* the rows of the catalog and the accounts, and the requests in flight
sideVars == <<catalog, accounts, procs>>
\* every variable of the order, cart, wishlist and review groups but last
shopVars == <<price, orders, orderitems, nextItemId, carts, cartitems,
              wishlists, toggles, reviewVars, response>>

\* ===================================================================
\* Orders
\* ===================================================================

NoOrder == [exists |-> FALSE, user |-> "u1", status |-> "pending", total_amount |-> 0]

ItemsOf(its, o) == {i \in its : i.order = o}

RECURSIVE SumItems(_)
\* sum(item.price_at_order * item.quantity for item in self.items.all())
SumItems(S) ==
    IF S = {} THEN 0
    ELSE LET i == CHOOSE x \in S : TRUE
         IN i.price_at_order * i.quantity + SumItems(S \ {i})

\* The in-memory Order instance for a row: the model's fields, plus the
\* plain attribute total_price that calculate_total sets on the instance.
Instance(tbl, o) ==
    [order_id |-> o, user |-> tbl[o].user, status |-> tbl[o].status,
     total_amount |-> tbl[o].total_amount, total_price |-> 0]

\* Model.save() of an Order: writes the model's fields of the instance.
Order_save(tbl, inst) ==
    [tbl EXCEPT ![inst.order_id] =
        [exists |-> TRUE, user |-> inst.user, status |-> inst.status,
         total_amount |-> inst.total_amount]]

\* Order.calculate_total: stores the sum in self.total_price and saves.
\* Yields the instance and the table after the save.
calculate_total(tbl, its, inst) ==
    LET total == SumItems(ItemsOf(its, inst.order_id))
        inst2 == [inst EXCEPT !.total_price = total]
    IN [inst |-> inst2, tbl |-> Order_save(tbl, inst2), total |-> total]

\* post_save / post_delete receiver of OrderItem:
\* order.calculate_total(); order.save()
update_order_total(tbl, its, inst) ==
    LET r == calculate_total(tbl, its, inst)
    IN [inst |-> r.inst, tbl |-> Order_save(r.tbl, r.inst)]

\* OrderItem.objects.create(**f): INSERT of one row.  price_at_order is
\* NOT NULL without default, (order, product) is unique together.
OrderItem_insertable(its, f) ==
    /\ "price_at_order" \in DOMAIN f
    /\ ~\E i \in its : i.order = f.order /\ i.product = f.product

OrderItem_row(nid, f) ==
    [id |-> nid, order |-> f.order, product |-> f.product,
     quantity |-> f.quantity, price_at_order |-> f.price_at_order]

\* ------------------------------------------------------------------
\* Request bodies: item lists of orders, [product, quantity] pairs.
OrderItemData == [product : Products, quantity : Quantities]
\* the item lists of the requests: none, one or two items
OrderItemLists ==
    {<<>>} \cup {<<d>> : d \in OrderItemData}
           \cup {<<d, e>> : d \in OrderItemData, e \in OrderItemData}

\* create(): OrderItem.objects.create(order=order, product=product,
\*           quantity=quantity, price_at_order=product.price)
CreateFields(o, items_data) ==
    [k \in 1..Len(items_data) |->
        [order |-> o, product |-> items_data[k].product,
         quantity |-> items_data[k].quantity,
         price_at_order |-> price[items_data[k].product]]]

\* update(): OrderItem.objects.create(order=instance, **item), where item
\* holds the fields of OrderItemCreateSerializer: product and quantity.
UpdateFields(o, items_data) ==
    [k \in 1..Len(items_data) |->
        [order |-> o, product |-> items_data[k].product,
         quantity |-> items_data[k].quantity]]

RECURSIVE InsertLoop(_, _, _)
\* for item in items: OrderItem.objects.create(...), each insert followed by
\* the post_save receiver; an insert the database rejects raises
\* IntegrityError out of the loop.
InsertLoop(st, fs, k) ==
    IF k > Len(fs) THEN st
    ELSE IF ~OrderItem_insertable(st.its, fs[k])
         THEN [st EXCEPT !.raised = "IntegrityError"]
         ELSE LET its2 == st.its \cup {OrderItem_row(st.nid, fs[k])}
                  sig == update_order_total(st.tbl, its2, st.inst)
              IN InsertLoop([st EXCEPT !.its = its2, !.nid = st.nid + 1,
                                       !.tbl = sig.tbl, !.inst = sig.inst],
                            fs, k + 1)

\* OrderViewSet.perform_create + OrderCreateSerializer.create.
\* serializer.save(user=request.user) replaces the user of the body.
OrderCreateSerializer_create(tbl, its, nid, o, u, s, items_data) ==
    LET inst0 == [order_id |-> o, user |-> u, status |-> s,
                  total_amount |-> 0, total_price |-> 0]
        tbl0 == Order_save(tbl, inst0)
        st0 == [tbl |-> tbl0, its |-> its, nid |-> nid, inst |-> inst0,
                raised |-> "none"]
        st1 == InsertLoop(st0, CreateFields(o, items_data), 1)
        r == calculate_total(st1.tbl, st1.its, st1.inst)
    IN IF st1.raised # "none" THEN st1
       ELSE [st1 EXCEPT !.tbl = Order_save(r.tbl, r.inst), !.inst = r.inst]

\* o is the uuid4 the new row gets: an id no row has.
OrderCreate(o, u, s, items_data) ==
    /\ ~orders[o].exists
    /\ nextItemId + Len(items_data) - 1 <= MaxItemId
    /\ LET st == OrderCreateSerializer_create(orders, orderitems, nextItemId,
                                              o, u, s, items_data)
       IN /\ orders' = st.tbl
          /\ orderitems' = st.its
          /\ nextItemId' = st.nid
          /\ last' = [op |-> "order_create", a |-> o, b |-> u, raised |-> st.raised]
    /\ UNCHANGED <<price, carts, cartitems, wishlists, toggles, reviewVars, response, sideVars>>

\* Variant: every requester gets Order.objects.all().
Order_get_queryset_all(tbl, req) == {o \in OrderIds : tbl[o].exists}

\* OrderViewSet.get_queryset: the orders a requester can address.
Order_get_queryset(tbl, req) ==
    {o \in OrderIds : tbl[o].exists /\ (is_staff(req) \/ tbl[o].user = req)}

\* GET /orders/ by requester req: the serialized rows of get_queryset().
OrderList(req) ==
    /\ response' = [rows |-> Order_get_queryset(orders, req), total |-> 0]
    /\ last' = [op |-> "order_list", a |-> req, b |-> "", raised |-> "none"]
    /\ UNCHANGED <<price, orders, orderitems, nextItemId, carts, cartitems,
                   wishlists, toggles, reviewVars, sideVars>>

RECURSIVE DeleteLoop(_, _)
\* instance.items.all().delete(): every row goes, each deletion followed by
\* the post_delete receiver, which loads the item's order afresh.
DeleteLoop(st, S) ==
    IF S = {} THEN st
    ELSE LET i == CHOOSE x \in S : TRUE
             its2 == st.its \ {i}
             sig == update_order_total(st.tbl, its2, Instance(st.tbl, i.order))
         IN DeleteLoop([st EXCEPT !.its = its2, !.tbl = sig.tbl], S \ {i})

\* Variant: no atomic block, the writes made before the exception stay.
atomic_no_rollback(before, after) == after

\* transaction.atomic(): the block's writes are kept unless it raises.
atomic(before, after) ==
    IF after.raised # "none"
    THEN [after EXCEPT !.tbl = before.tbl, !.its = before.its] ELSE after

\* OrderCreateSerializer.update; has_items is FALSE when the body has no
\* 'items' key (partial update).
OrderCreateSerializer_update(tbl, its, nid, o, u, s, has_items, items_data) ==
    LET \* super().update(instance, validated_data): setattr + save
        inst0 == [Instance(tbl, o) EXCEPT !.user = u, !.status = s]
        st0 == [tbl |-> Order_save(tbl, inst0), its |-> its, nid |-> nid,
                inst |-> inst0, raised |-> "none"]
        body == IF has_items
                THEN InsertLoop(DeleteLoop(st0, ItemsOf(st0.its, o)),
                                UpdateFields(o, items_data), 1)
                ELSE st0
        st1 == atomic(st0, body)
        r == calculate_total(st1.tbl, st1.its, st1.inst)
    IN IF st1.raised # "none" THEN st1
       ELSE [st1 EXCEPT !.tbl = Order_save(r.tbl, r.inst), !.inst = r.inst]

OrderUpdate(req, o, u, s, has_items, items_data) ==
    /\ o \in Order_get_queryset(orders, req)
    /\ has_items \/ items_data = <<>>
    /\ LET st == OrderCreateSerializer_update(orders, orderitems, nextItemId,
                                              o, u, s, has_items, items_data)
       IN /\ orders' = st.tbl
          /\ orderitems' = st.its
          /\ nextItemId' = st.nid
          /\ last' = [op |-> IF has_items THEN "order_update_items"
                             ELSE "order_update",
                      a |-> o, b |-> req, raised |-> st.raised]
    /\ UNCHANGED <<price, carts, cartitems, wishlists, toggles, reviewVars, response, sideVars>>

\* OrderAdmin.save_formset + save_related for one added inline row:
\* price_at_order is None on the new object and is set from product.price.
\* The inline formset's validation rejects a (order, product) duplicate.
AdminAddItem(o, p, q) ==
    /\ orders[o].exists
    /\ nextItemId <= MaxItemId
    /\ LET f == [order |-> o, product |-> p, quantity |-> q,
                 price_at_order |-> price[p]]
       IN /\ OrderItem_insertable(orderitems, f)
          /\ LET its2 == orderitems \cup {OrderItem_row(nextItemId, f)}
                 sig == update_order_total(orders, its2, Instance(orders, o))
                 r == calculate_total(sig.tbl, its2, Instance(sig.tbl, o))
             IN /\ orderitems' = its2
                /\ orders' = Order_save(r.tbl, r.inst)
    /\ nextItemId' = nextItemId + 1
    /\ last' = [op |-> "admin_add_item", a |-> o, b |-> "", raised |-> "none"]
    /\ UNCHANGED <<price, carts, cartitems, wishlists, toggles, reviewVars, response, sideVars>>

\* Variant: a changed row takes the current price of its product again.
save_formset_changed_reprice(i, p, q) ==
    [i EXCEPT !.product = p, !.quantity = q, !.price_at_order = price[p]]

\* OrderAdmin.save_formset for one changed inline row: price_at_order is a
\* read-only field and is not None, so it is saved as it was.
save_formset_changed(i, p, q) == [i EXCEPT !.product = p, !.quantity = q]

AdminChangeItem(i, p, q) ==
    /\ i \in orderitems
    /\ <<p, q>> # <<i.product, i.quantity>>
    /\ ~\E j \in orderitems : j.id # i.id /\ j.order = i.order /\ j.product = p
    /\ LET its2 == (orderitems \ {i}) \cup {save_formset_changed(i, p, q)}
           sig == update_order_total(orders, its2, Instance(orders, i.order))
           r == calculate_total(sig.tbl, its2, Instance(sig.tbl, i.order))
       IN /\ orderitems' = its2
          /\ orders' = Order_save(r.tbl, r.inst)
    /\ last' = [op |-> "admin_change_item", a |-> i.order, b |-> "", raised |-> "none"]
    /\ UNCHANGED <<price, nextItemId, carts, cartitems, wishlists, toggles, reviewVars, response, sideVars>>

\* ProductViewSet update: a new price for a product.
ProductUpdatePrice(p, v) ==
    /\ v # price[p]
    /\ price' = [price EXCEPT ![p] = v]
    /\ last' = [op |-> "product_update", a |-> p, b |-> "", raised |-> "none"]
    /\ UNCHANGED <<orders, orderitems, nextItemId, carts, cartitems, wishlists, toggles, reviewVars, response, sideVars>>


\* ===================================================================
\* Carts
\* ===================================================================

None == "None"                  \* a NULL user / cart_code, a session without key
SessionKeys == {"k1", "k2"}
CartIds == {"c1", "c2", "c3", "c4"}

CartItemsOf(cis, c) == {i \in cis : i.cart = c}

\* uuid4 for a new Cart row: an id no row has.
FreshCart(cs) == CHOOSE c \in CartIds : ~\E r \in cs : r.cart_id = c

\* Cart.objects.get_or_create(user=user)
Cart_get_or_create_user(cs, u) ==
    IF \E r \in cs : r.user = u
    THEN [tbl |-> cs, cart |-> (CHOOSE r \in cs : r.user = u).cart_id,
          created |-> FALSE]
    ELSE [tbl |-> cs \cup {[cart_id |-> FreshCart(cs), user |-> u,
                            cart_code |-> None]},
          cart |-> FreshCart(cs), created |-> TRUE]

\* Cart.objects.get_or_create(cart_code=cart_code)
Cart_get_or_create_code(cs, k) ==
    IF \E r \in cs : r.cart_code = k
    THEN [tbl |-> cs, cart |-> (CHOOSE r \in cs : r.cart_code = k).cart_id,
          created |-> FALSE]
    ELSE [tbl |-> cs \cup {[cart_id |-> FreshCart(cs), user |-> None,
                            cart_code |-> k]},
          cart |-> FreshCart(cs), created |-> TRUE]

\* Request bodies: ItemInputSerializer fields product, quantity, is_active.
CartItemData == [product : Products, quantity : Quantities, is_active : BOOLEAN]
\* the item lists of the cart requests: none or one item
CartItemLists == {<<>>} \cup {<<d>> : d \in CartItemData}

RECURSIVE CartCreateUpdateSerializer_update_replace(_, _, _, _)
\* Variant: an item already in the cart gets the request's quantity
\* (update_or_create with defaults) where the code adds to it.
CartCreateUpdateSerializer_update_replace(cis, c, items_data, k) ==
    IF k > Len(items_data) THEN cis
    ELSE LET d == items_data[k]
             old == {i \in cis : i.cart = c /\ i.product = d.product}
             new == [cart |-> c, product |-> d.product,
                     quantity |-> d.quantity, is_active |-> d.is_active]
         IN CartCreateUpdateSerializer_update_replace((cis \ old) \cup {new}, c,
                                                      items_data, k + 1)

RECURSIVE CartCreateUpdateSerializer_update(_, _, _, _)
\* for item_data in items_data: CartItem.objects.get_or_create(cart, product,
\* defaults={quantity, is_active}); if not created: quantity += quantity,
\* is_active = is_active, save.
CartCreateUpdateSerializer_update(cis, c, items_data, k) ==
    IF k > Len(items_data) THEN cis
    ELSE LET d == items_data[k]
             old == {i \in cis : i.cart = c /\ i.product = d.product}
             new == IF old = {}
                    THEN [cart |-> c, product |-> d.product,
                          quantity |-> d.quantity, is_active |-> d.is_active]
                    ELSE LET i == CHOOSE x \in old : TRUE
                         IN [i EXCEPT !.quantity = i.quantity + d.quantity,
                                      !.is_active = d.is_active]
         IN CartCreateUpdateSerializer_update((cis \ old) \cup {new}, c,
                                              items_data, k + 1)

\* CartViewSet.perform_create + CartCreateUpdateSerializer.create: the cart of
\* the requester (user u, or session key k when u is None), then update().
CartCreateUpdateSerializer_create(cs, cis, u, k, items_data) ==
    LET g == IF u # None THEN Cart_get_or_create_user(cs, u)
             ELSE Cart_get_or_create_code(cs, k)
    IN [tbl |-> g.tbl, cart |-> g.cart,
        its |-> CartCreateUpdateSerializer_update(cis, g.cart, items_data, 1)]

QtyWithin(cis) == \A i \in cis : i.quantity <= MaxCartQty

CartCreate(u, k, items_data) ==
    /\ (u = None) # (k = None)
    /\ LET r == CartCreateUpdateSerializer_create(carts, cartitems, u, k,
                                                  items_data)
       IN /\ QtyWithin(r.its)
          /\ carts' = r.tbl
          /\ cartitems' = r.its
          /\ last' = [op |-> "cart_create", a |-> u, b |-> k, raised |-> "none"]
    /\ UNCHANGED <<price, orders, orderitems, nextItemId, wishlists, toggles, reviewVars, response, sideVars>>

\* CartViewSet.get_queryset: the carts a requester can address.
Cart_get_queryset(cs, u, k) ==
    IF u # None THEN {r \in cs : r.user = u} ELSE {r \in cs : r.cart_code = k}

RECURSIVE SumSubTotals(_)
\* sum(item.sub_total for item in ...), sub_total = product.price * quantity
SumSubTotals(S) ==
    IF S = {} THEN 0
    ELSE LET i == CHOOSE x \in S : TRUE
         IN price[i.product] * i.quantity + SumSubTotals(S \ {i})

\* Variant: the total runs over every item of the cart.
get_cart_total_all(cis, c) == SumSubTotals(CartItemsOf(cis, c))

\* CartSerializer.get_cart_total: the items with is_active, at Product.price.
get_cart_total(cis, c) ==
    SumSubTotals({i \in CartItemsOf(cis, c) : i.is_active})

\* GET on the requester's cart: CartSerializer with its cart_total.
CartRetrieve(u, k) ==
    /\ (u = None) # (k = None)
    /\ \E r \in Cart_get_queryset(carts, u, k) :
          /\ response' = [rows |-> {r.cart_id},
                          total |-> get_cart_total(cartitems, r.cart_id)]
          /\ last' = [op |-> "cart_retrieve", a |-> r.cart_id, b |-> "",
                      raised |-> "none"]
    /\ UNCHANGED <<price, orders, orderitems, nextItemId, carts, cartitems,
                   wishlists, toggles, reviewVars, sideVars>>

\* PUT/PATCH on a cart: CartCreateUpdateSerializer.update.
CartUpdate(u, k, items_data) ==
    /\ (u = None) # (k = None)
    /\ \E r \in Cart_get_queryset(carts, u, k) :
          LET its == CartCreateUpdateSerializer_update(cartitems, r.cart_id,
                                                       items_data, 1)
          IN /\ QtyWithin(its)
             /\ cartitems' = its
    /\ last' = [op |-> "cart_update", a |-> u, b |-> k, raised |-> "none"]
    /\ UNCHANGED <<price, orders, orderitems, nextItemId, carts, wishlists, toggles, reviewVars, response, sideVars>>

\* The reverse accessors of a Cart instance: CartItem.cart has
\* related_name='items'.  Any other attribute name raises AttributeError.
CartAccessors == {"items"}

RECURSIVE MergeLoop(_, _, _)
\* for item in <source items>: user_cart.<items>.get_or_create(product=
\* item.product, defaults={"quantity": item.quantity}); if not created:
\* cart_item.quantity += item.quantity; cart_item.save()
MergeLoop(cis, S, dst) ==
    IF S = {} THEN cis
    ELSE LET item == CHOOSE x \in S : TRUE
             old == {i \in cis : i.cart = dst /\ i.product = item.product}
             new == IF old = {}
                    THEN [cart |-> dst, product |-> item.product,
                          quantity |-> item.quantity, is_active |-> TRUE]
                    ELSE LET i == CHOOSE x \in old : TRUE
                         IN [i EXCEPT !.quantity = i.quantity + item.quantity]
         IN MergeLoop((cis \ old) \cup {new}, S \ {item}, dst)

\* session_cart.delete(): the row and, by CASCADE, its items.
Cart_delete(db, c) ==
    [db EXCEPT !.tbl = {r \in db.tbl : r.cart_id # c},
               !.its = {i \in db.its : i.cart # c}]

\* Variant: the loop runs over the source's items and its writes stay
\* although the statement after it raises (no atomic block around them).
merge_carts_no_rollback(db, src, dst) ==
    [db EXCEPT !.its = MergeLoop(db.its, CartItemsOf(db.its, src), dst),
               !.raised = "AttributeError"]

\* Variant: the loop reads the accessor Cart has, session_cart.items.
merge_carts_items_accessor(db, src, dst) ==
    LET body == IF "items" \notin CartAccessors
                THEN [db EXCEPT !.raised = "AttributeError"]
                ELSE Cart_delete([db EXCEPT !.its =
                                    MergeLoop(db.its, CartItemsOf(db.its, src), dst)],
                                 src)
    IN atomic(db, body)

\* services.cart.merge_carts(session_cart, user_cart): inside
\* transaction.atomic(), the loop reads session_cart.cartitems.
merge_carts(db, src, dst) ==
    LET body == IF "cartitems" \notin CartAccessors
                THEN [db EXCEPT !.raised = "AttributeError"]
                ELSE Cart_delete([db EXCEPT !.its =
                                    MergeLoop(db.its, CartItemsOf(db.its, src), dst)],
                                 src)
    IN atomic(db, body)

\* Variant: the user's cart is fetched or created ahead of the two returns.
handle_cart_merge_eager(cs, cis, u, k) ==
    LET g == Cart_get_or_create_user(cs, u)
        db == [tbl |-> g.tbl, its |-> cis, raised |-> "none"]
        found == {r \in cs : r.cart_code = k /\ r.user = None}
    IN IF k = None THEN db
       ELSE IF found = {} THEN db
       ELSE merge_carts(db, (CHOOSE r \in found : TRUE).cart_id, g.cart)

\* Variant: the session cart is handed to the user (user set on its row)
\* when the user has no cart yet, and merged otherwise.
handle_cart_merge_attach(cs, cis, u, k) ==
    LET db == [tbl |-> cs, its |-> cis, raised |-> "none"]
        found == {r \in cs : r.cart_code = k /\ r.user = None}
    IN IF k = None THEN db
       ELSE IF found = {} THEN db
       ELSE LET session_cart == CHOOSE r \in found : TRUE
            IN IF \E r \in cs : r.user = u
               THEN merge_carts(db, session_cart.cart_id,
                                (CHOOSE r \in cs : r.user = u).cart_id)
               ELSE [db EXCEPT !.tbl = (cs \ {session_cart})
                                  \cup {[session_cart EXCEPT !.user = u]}]

\* signals.handle_cart_merge(user, request): k is request.session.session_key.
handle_cart_merge(cs, cis, u, k) ==
    LET db == [tbl |-> cs, its |-> cis, raised |-> "none"]
        found == {r \in cs : r.cart_code = k /\ r.user = None}
    IN IF k = None THEN db
       ELSE IF found = {} THEN db
       ELSE LET session_cart == CHOOSE r \in found : TRUE
                g == Cart_get_or_create_user(cs, u)
            IN merge_carts([db EXCEPT !.tbl = g.tbl], session_cart.cart_id, g.cart)

\* user_logged_in fires for user u on a session with key k (None: no key).
Login(u, k) ==
    /\ LET r == handle_cart_merge(carts, cartitems, u, k)
       IN /\ QtyWithin(r.its)
          /\ carts' = r.tbl
          /\ cartitems' = r.its
          /\ last' = [op |-> "login", a |-> u, b |-> k, raised |-> r.raised]
    /\ UNCHANGED <<price, orders, orderitems, nextItemId, wishlists, toggles, reviewVars, response, sideVars>>

\* ===================================================================
\* Wishlists
\* ===================================================================

\* the XOR of the two branches: remove if present, add if absent
Wishlist_toggle(w, p) ==
    IF p \in w.products
    THEN [w EXCEPT !.products = w.products \ {p}]
    ELSE [w EXCEPT !.products = w.products \cup {p}]

\* Variant: create() adds the product whether or not it is there.
WishlistCreateUpdateSerializer_create_add_only(w, p) ==
    [exists |-> TRUE, products |-> w.products \cup {p}]

\* WishlistCreateUpdateSerializer.create: get_or_create(user=user); a created
\* wishlist gets the product, an existing one is toggled.
WishlistCreateUpdateSerializer_create(w, p) ==
    IF ~w.exists THEN [exists |-> TRUE, products |-> {p}]
    ELSE Wishlist_toggle(w, p)

\* Variant: update() removes the product in both branches.
WishlistCreateUpdateSerializer_update_remove_only(w, p) ==
    [w EXCEPT !.products = w.products \ {p}]

\* WishlistCreateUpdateSerializer.update on an existing wishlist.
WishlistCreateUpdateSerializer_update(w, p) == Wishlist_toggle(w, p)

\* History of the wishlist requests: n counts the requests in a row for the
\* same (user, product), before is that user's product set ahead of the first.
Toggled(u, p) ==
    IF last.op \in {"wishlist_create", "wishlist_update"}
       /\ last.a = u /\ last.b = p /\ toggles.n = 1
    THEN [toggles EXCEPT !.n = 2]
    ELSE [n |-> 1, before |-> wishlists[u].products]

\* POST /wishlists/ by user u: perform_create saves with user=request.user.
WishlistCreate(u, p) ==
    /\ wishlists' = [wishlists EXCEPT
                       ![u] = WishlistCreateUpdateSerializer_create(wishlists[u], p)]
    /\ last' = [op |-> "wishlist_create", a |-> u, b |-> p, raised |-> "none"]
    /\ toggles' = Toggled(u, p)
    /\ UNCHANGED <<price, orders, orderitems, nextItemId, carts, cartitems,
                   reviewVars, response, sideVars>>

\* PUT /wishlists/<id>/ by user u: get_queryset yields only u's wishlist.
WishlistUpdate(u, p) ==
    /\ wishlists[u].exists
    /\ wishlists' = [wishlists EXCEPT
                       ![u] = WishlistCreateUpdateSerializer_update(wishlists[u], p)]
    /\ last' = [op |-> "wishlist_update", a |-> u, b |-> p, raised |-> "none"]
    /\ toggles' = Toggled(u, p)
    /\ UNCHANGED <<price, orders, orderitems, nextItemId, carts, cartitems,
                   reviewVars, response, sideVars>>

\* ===================================================================
\* Reviews and product ratings
\* ===================================================================

\* Review.rating values of the requests
Ratings == {1, 2}

RECURSIVE GCD(_, _)
GCD(a, b) == IF b = 0 THEN a ELSE GCD(b, a % b)

\* a mean as a fraction in lowest terms; 0.0 is 0/1
Fraction(n, d) == [num |-> n \div GCD(n, d), den |-> d \div GCD(n, d)]
Zero == Fraction(0, 1)

NoRating == [exists |-> FALSE, average |-> Zero, total_ratings |-> 0]

\* product.reviews: Review.product related_name='reviews'
ReviewsOf(rs, p) == {r \in rs : r.product = p}

RECURSIVE SumRatings(_)
SumRatings(S) ==
    IF S = {} THEN 0
    ELSE LET r == CHOOSE x \in S : TRUE IN r.rating + SumRatings(S \ {r})

\* product.reviews.aggregate(average_rating=Avg('rating'),
\*                           total_ratings=Count('rating'));
\* Avg over no rows is None (has_average FALSE).
Review_aggregate(rs, p) ==
    LET S == ReviewsOf(rs, p)
    IN [has_average |-> S # {},
        average_rating |-> IF S = {} THEN Zero
                           ELSE Fraction(SumRatings(S), Cardinality(S)),
        total_ratings |-> Cardinality(S)]

\* post_save / post_delete receiver of Review, for instance.product:
\* get_or_create the ProductRating, average_rating = aggregate or 0.0,
\* total_ratings = count, save.
update_product_rating(rt, rs, p) ==
    LET agg == Review_aggregate(rs, p)
    IN [rt EXCEPT ![p] =
          [exists |-> TRUE,
           average |-> IF agg.has_average THEN agg.average_rating ELSE Zero,
           total_ratings |-> agg.total_ratings]]

\* ReviewViewSet.perform_create: serializer.save(user=request.user) inserts
\* the row, super().perform_create saves the same instance once more; each
\* save is followed by the receiver.
ReviewCreate(p, r) ==
    /\ nextReviewId <= MaxReviewId
    /\ LET rs == reviews \cup {[id |-> nextReviewId, product |-> p, rating |-> r]}
       IN /\ reviews' = rs
          /\ ratings' = update_product_rating(update_product_rating(ratings, rs, p),
                                              rs, p)
    /\ nextReviewId' = nextReviewId + 1
    /\ last' = [op |-> "review_create", a |-> p, b |-> p, raised |-> "none"]
    /\ UNCHANGED <<price, orders, orderitems, nextItemId, carts, cartitems,
                   wishlists, toggles, response, sideVars>>

\* PUT/PATCH on a review with ReviewCreateSerializer (product, rating,
\* comment): the row is saved, the receiver runs for its product.
ReviewUpdate(i, p, r) ==
    /\ i \in reviews
    /\ <<p, r>> # <<i.product, i.rating>>
    /\ LET rs == (reviews \ {i}) \cup {[i EXCEPT !.product = p, !.rating = r]}
       IN /\ reviews' = rs
          /\ ratings' = update_product_rating(ratings, rs, p)
    /\ last' = [op |-> "review_update", a |-> p, b |-> i.product, raised |-> "none"]
    /\ UNCHANGED <<price, orders, orderitems, nextItemId, carts, cartitems,
                   wishlists, toggles, nextReviewId, response, sideVars>>

\* DELETE on a review: the row goes, the receiver runs for its product.
ReviewDestroy(i) ==
    /\ i \in reviews
    /\ reviews' = reviews \ {i}
    /\ ratings' = update_product_rating(ratings, reviews \ {i}, i.product)
    /\ last' = [op |-> "review_destroy", a |-> i.product, b |-> i.product,
                raised |-> "none"]
    /\ UNCHANGED <<price, orders, orderitems, nextItemId, carts, cartitems,
                   wishlists, toggles, nextReviewId, response, sideVars>>

\* ===================================================================
\* Specifications

\* Variant: an administrator gets Wishlist.objects.all().
Wishlist_get_queryset_staff_all(ws, req) ==
    {u \in Users : ws[u].exists /\ (is_staff(req) \/ u = req)}

\* WishlistViewSet.get_queryset: Wishlist.objects.filter(user=request.user);
\* a wishlist is named by its user.
Wishlist_get_queryset(ws, req) == {u \in Users : ws[u].exists /\ u = req}

\* GET /wishlists/ by requester req: the serialized rows of get_queryset().
WishlistList(req) ==
    /\ response' = [rows |-> Wishlist_get_queryset(wishlists, req), total |-> 0]
    /\ last' = [op |-> "wishlist_list", a |-> req, b |-> "", raised |-> "none"]
    /\ UNCHANGED <<price, orders, orderitems, nextItemId, carts, cartitems,
                   wishlists, toggles, reviewVars, sideVars>>

\* ===================================================================
\* Catalog: Product and Category slugs
\* ===================================================================

\* Names and slugs are sequences of characters.
CatalogModels == {"Product", "Category"}
CatalogIds == {"x1", "x2"}
\* the names the requests of the model supply
CatalogNames == {<<"A", " ", "b">>, <<"a", "-", "b">>, <<"a", "b">>,
                 <<"B", "!">>, <<"!">>}

\* str.lower() on one character
Lower(ch) == CASE ch = "A" -> "a" [] ch = "B" -> "b" [] OTHER -> ch
\* \w, and the separators [-\s], among the characters of the model
WordChars == {"a", "b", "_"}
Separators == {"-", " "}
SlugKept(ch) == ch \in WordChars \cup Separators

RECURSIVE CollapseSeparators(_, _)
\* re.sub(r"[-\s]+", "-", value); inRun says the previous character was
\* a separator
CollapseSeparators(sq, inRun) ==
    IF sq = <<>> THEN <<>>
    ELSE IF Head(sq) \in Separators
         THEN (IF inRun THEN <<>> ELSE <<"-">>)
              \o CollapseSeparators(Tail(sq), TRUE)
         ELSE <<Head(sq)>> \o CollapseSeparators(Tail(sq), FALSE)

RECURSIVE StripLeft(_)
StripLeft(sq) ==
    IF sq # <<>> /\ Head(sq) \in {"-", "_"} THEN StripLeft(Tail(sq)) ELSE sq

RECURSIVE StripRight(_)
StripRight(sq) ==
    IF sq # <<>> /\ sq[Len(sq)] \in {"-", "_"}
    THEN StripRight(SubSeq(sq, 1, Len(sq) - 1)) ELSE sq

\* django.utils.text.slugify: lower-case, drop what is neither \w, space
\* nor hyphen, turn runs of spaces and hyphens into one hyphen, strip
\* hyphens and underscores at both ends.
slugify(name) ==
    LET lowered == [n \in 1..Len(name) |-> Lower(name[n])]
        kept == SelectSeq(lowered, SlugKept)
    IN StripRight(StripLeft(CollapseSeparators(kept, FALSE)))

\* The rows of one model, and the row with a primary key.
RowsOf(cat, m) == {r \in cat : r.model = m}
RowAt(cat, m, x) == {r \in cat : r.model = m /\ r.id = x}

\* Variant: every save derives the slug from the name afresh.
Model_save_slug_rederive(inst) == [inst EXCEPT !.slug = slugify(inst.name)]

\* Product.save / Category.save up to super().save():
\* if not self.slug: self.slug = slugify(self.name).  None and '' are both
\* falsy; an instance without slug carries the empty sequence.
Model_save_slug(inst) ==
    IF inst.slug = <<>> THEN [inst EXCEPT !.slug = slugify(inst.name)] ELSE inst

\* super().save(): INSERT or UPDATE of the row; name and slug are unique
\* per model.
Row_writable(cat, inst) ==
    \A r \in RowsOf(cat, inst.model) :
        r.id # inst.id => (r.name # inst.name /\ r.slug # inst.slug)

\* The UniqueValidator of the write serializers' name field.
Name_valid(cat, m, x, name) ==
    \A r \in RowsOf(cat, m) : r.id # x => r.name # name

\* A save of inst through a write serializer: the outcome and the rows.
Catalog_save(cat, inst) ==
    LET saved == Model_save_slug(inst)
    IN IF ~Name_valid(cat, inst.model, inst.id, inst.name)
       THEN [rows |-> cat, raised |-> "ValidationError"]
       ELSE IF ~Row_writable(cat, saved)
       THEN [rows |-> cat, raised |-> "IntegrityError"]
       ELSE [rows |-> (cat \ RowAt(cat, inst.model, inst.id)) \cup {saved},
             raised |-> "none"]

\* POST /products/ or /categories/ with a name: the write serializers have
\* no slug field, the new instance has none.  x is the uuid4 of the row.
CatalogCreate(m, x, name) ==
    /\ RowAt(catalog, m, x) = {}
    /\ LET r == Catalog_save(catalog, [model |-> m, id |-> x, name |-> name,
                                       slug |-> <<>>])
       IN /\ catalog' = r.rows
          /\ last' = [op |-> "catalog_create", a |-> m, b |-> x,
                      raised |-> r.raised]
    /\ UNCHANGED <<shopVars, accounts, procs>>

\* PUT/PATCH of a product or category with a new name: the instance is the
\* row as loaded, with the name set.
CatalogUpdate(m, x, name) ==
    /\ \E row \in RowAt(catalog, m, x) :
          LET r == Catalog_save(catalog, [row EXCEPT !.name = name])
          IN /\ catalog' = r.rows
             /\ last' = [op |-> "catalog_update", a |-> m, b |-> x,
                         raised |-> r.raised]
    /\ UNCHANGED <<shopVars, accounts, procs>>

\* DELETE of a product or category.
CatalogDestroy(m, x) ==
    /\ RowAt(catalog, m, x) # {}
    /\ catalog' = catalog \ RowAt(catalog, m, x)
    /\ last' = [op |-> "catalog_destroy", a |-> m, b |-> x, raised |-> "none"]
    /\ UNCHANGED <<shopVars, accounts, procs>>

\* ===================================================================
\* Accounts: CustomUserManager
\* ===================================================================

\* Emails are sequences of characters; the empty sequence is '' or None.
Emails == {<<>>, <<"A", "@", "B">>, <<"A", "@", "b">>, <<"a", "@", "B">>}
\* None is a call without password
Passwords == {"pw1", None}
\* extra_fields of the calls: keyword arguments for is_staff, is_superuser
FlagValues == {"True", "False", "None"}
ExtraFields ==
    {<<>>}
    \cup {[is_staff |-> v] : v \in FlagValues}
    \cup {[is_superuser |-> v] : v \in {"False"}}
    \cup {[is_staff |-> "True", is_superuser |-> "True"]}

\* the position of the last "@" of an email, 0 when it has none
LastAt(email) ==
    LET at == {n \in 1..Len(email) : email[n] = "@"}
    IN IF at = {} THEN 0 ELSE CHOOSE n \in at : \A k \in at : k <= n

\* BaseUserManager.normalize_email: email.strip().rsplit("@", 1), the
\* domain part lower-cased.
normalize_email(email) ==
    IF LastAt(email) = 0 THEN email
    ELSE [n \in 1..Len(email) |->
             IF n > LastAt(email) THEN Lower(email[n]) ELSE email[n]]

\* make_password: the salted hash of a password, an unusable value for None.
make_password(pw) ==
    IF pw = None THEN [usable |-> FALSE, hash_of |-> None]
    ELSE [usable |-> TRUE, hash_of |-> pw]

\* check_password(raw, encoded)
check_password(pw, encoded) ==
    pw # None /\ encoded.usable /\ encoded = make_password(pw)

\* a keyword argument of extra_fields, or the model field's default
Field(extra, name, default) ==
    IF name \in DOMAIN extra THEN extra[name] ELSE default

\* Variant: the email is not looked at before the user is built.
create_user_any_email(rows, email, pw, extra) ==
    LET user == [email |-> normalize_email(email),
                 is_active |-> Field(extra, "is_active", "True"),
                 is_staff |-> Field(extra, "is_staff", "False"),
                 is_superuser |-> Field(extra, "is_superuser", "False"),
                 password |-> make_password(pw)]
    IN IF \E r \in rows : r.email = user.email
       THEN [rows |-> rows, raised |-> "IntegrityError"]
       ELSE [rows |-> rows \cup {user}, raised |-> "none"]

\* CustomUserManager.create_user: ValueError without email; else the model
\* instance with the normalized email and the extra fields, set_password,
\* save.  User.email is unique.
create_user(rows, email, pw, extra) ==
    IF email = <<>> THEN [rows |-> rows, raised |-> "ValueError"]
    ELSE LET user == [email |-> normalize_email(email),
                      is_active |-> Field(extra, "is_active", "True"),
                      is_staff |-> Field(extra, "is_staff", "False"),
                      is_superuser |-> Field(extra, "is_superuser", "False"),
                      password |-> make_password(pw)]
         IN IF \E r \in rows : r.email = user.email
            THEN [rows |-> rows, raised |-> "IntegrityError"]
            ELSE [rows |-> rows \cup {user}, raised |-> "none"]

\* extra_fields.setdefault(name, value)
setdefault(extra, name, value) ==
    IF name \in DOMAIN extra THEN extra
    ELSE [k \in DOMAIN extra \cup {name} |->
             IF k = name THEN value ELSE extra[k]]

\* Variant: the flags of the caller are passed on as they are.
create_superuser_unchecked(rows, email, pw, extra) ==
    create_user(rows, email, pw,
                setdefault(setdefault(extra, "is_staff", "True"),
                           "is_superuser", "True"))

\* CustomUserManager.create_superuser: both flags default to True, any
\* other value of either raises ValueError, then create_user.
create_superuser(rows, email, pw, extra) ==
    LET extra_fields == setdefault(setdefault(extra, "is_staff", "True"),
                                   "is_superuser", "True")
    IN IF extra_fields["is_staff"] # "True"
          \/ extra_fields["is_superuser"] # "True"
       THEN [rows |-> rows, raised |-> "ValueError"]
       ELSE create_user(rows, email, pw, extra_fields)

\* User.objects.create_user(email, password, **extra)
CreateUser(email, pw, extra) ==
    /\ LET r == create_user(accounts, email, pw, extra)
       IN /\ accounts' = r.rows
          /\ last' = [op |-> "create_user", a |-> "", b |-> "",
                      raised |-> r.raised, email |-> email, password |-> pw,
                      extra |-> extra]
    /\ UNCHANGED <<shopVars, catalog, procs>>

\* User.objects.create_superuser(email, password, **extra)
CreateSuperuser(email, pw, extra) ==
    /\ LET r == create_superuser(accounts, email, pw, extra)
       IN /\ accounts' = r.rows
          /\ last' = [op |-> "create_superuser", a |-> "", b |-> "",
                      raised |-> r.raised, email |-> email, password |-> pw,
                      extra |-> extra]
    /\ UNCHANGED <<shopVars, catalog, procs>>

\* ===================================================================
\* Requests in flight
\* ===================================================================

Workers == {"w1", "w2"}
\* an Order instance not loaded yet
NoInstance == [order_id |-> "", user |-> "", status |-> "", total_amount |-> 0,
               total_price |-> 0]
\* a worker that serves no request
Idle == [pc |-> "idle", target |-> "", product |-> "", quantity |-> 0,
         is_active |-> TRUE, base |-> 0, read |-> 0, retried |-> FALSE,
         raised |-> "none", inst |-> NoInstance]

\* ------------------------------------------------------------------
\* One OrderItem write with its post_save receiver, statement by statement.
\* No transaction spans the statements: each is committed as it ends.

\* A request arrives that writes an item (p, q) of order o.
ItemWriteBegin(w, o, p, q) ==
    /\ procs[w].pc = "idle"
    /\ orders[o].exists
    /\ procs' = [procs EXCEPT ![w] = [Idle EXCEPT !.pc = "item_insert",
                     !.target = o, !.product = p, !.quantity = q]]
    /\ last' = [op |-> "item_write_begin", a |-> o, b |-> w, raised |-> "none"]
    /\ UNCHANGED <<shopVars, catalog, accounts>>

\* OrderItem.objects.create(order, product, quantity, price_at_order): the
\* INSERT.  The receiver will work on instance.order, loaded here.
ItemWriteInsert(w) ==
    LET me == procs[w]
        f == [order |-> me.target, product |-> me.product,
              quantity |-> me.quantity, price_at_order |-> price[me.product]]
    IN /\ me.pc = "item_insert"
       /\ nextItemId <= MaxItemId
       /\ IF OrderItem_insertable(orderitems, f)
          THEN /\ orderitems' = orderitems \cup {OrderItem_row(nextItemId, f)}
               /\ nextItemId' = nextItemId + 1
               /\ procs' = [procs EXCEPT ![w].pc = "item_sum",
                                         ![w].inst = Instance(orders, me.target)]
               /\ last' = [op |-> "item_insert", a |-> me.target, b |-> w,
                           raised |-> "none"]
          ELSE /\ UNCHANGED <<orderitems, nextItemId>>
               /\ procs' = [procs EXCEPT ![w].pc = "done",
                                         ![w].raised = "IntegrityError"]
               /\ last' = [op |-> "item_insert", a |-> me.target, b |-> w,
                           raised |-> "IntegrityError"]
       /\ UNCHANGED <<price, orders, carts, cartitems, wishlists, toggles,
                      reviewVars, response, catalog, accounts>>

\* update_order_total -> Order.calculate_total: the SELECT of the order's
\* items and the sum over them, kept in total_price of the instance.
ItemWriteSum(w) ==
    LET me == procs[w]
    IN /\ me.pc = "item_sum"
       /\ procs' = [procs EXCEPT ![w].pc = "item_save",
             ![w].inst = [me.inst EXCEPT !.total_price =
                             SumItems(ItemsOf(orderitems, me.target))]]
       /\ last' = [op |-> "item_sum", a |-> me.target, b |-> w, raised |-> "none"]
       /\ UNCHANGED <<shopVars, catalog, accounts>>

\* self.save() of calculate_total and order.save() of the receiver: the
\* UPDATE of the order row from the instance, twice the same.
ItemWriteSave(w) ==
    LET me == procs[w]
    IN /\ me.pc = "item_save"
       /\ orders' = Order_save(orders, me.inst)
       /\ procs' = [procs EXCEPT ![w].pc = "done"]
       /\ last' = [op |-> "item_save", a |-> me.target, b |-> w, raised |-> "none"]
       /\ UNCHANGED <<price, orderitems, nextItemId, carts, cartitems, wishlists,
                      toggles, reviewVars, response, catalog, accounts>>

\* The recomputation fails (the connection is lost, the process is killed)
\* after the INSERT is committed: the request ends in an exception.
ItemWriteFail(w) ==
    /\ procs[w].pc \in {"item_sum", "item_save"}
    /\ procs' = [procs EXCEPT ![w].pc = "done", ![w].raised = "OperationalError"]
    /\ last' = [op |-> "item_fail", a |-> procs[w].target, b |-> w,
                raised |-> "OperationalError"]
    /\ UNCHANGED <<shopVars, catalog, accounts>>


\* ------------------------------------------------------------------
\* CartCreateUpdateSerializer.update for one item, statement by statement:
\* get_or_create is a SELECT, then an INSERT in a savepoint whose
\* IntegrityError is caught and answered with a second SELECT.

\* A request arrives that adds (p, q, is_active) to the cart c.  base is
\* the quantity the cart holds of p at that moment.
CartAddBegin(w, c, p, q, act) ==
    /\ procs[w].pc = "idle"
    /\ \E r \in carts : r.cart_id = c
    /\ procs' = [procs EXCEPT ![w] = [Idle EXCEPT !.pc = "cartitem_get",
                     !.target = c, !.product = p, !.quantity = q,
                     !.is_active = act,
                     !.base = IF \E i \in CartItemsOf(cartitems, c) : i.product = p
                              THEN (CHOOSE i \in CartItemsOf(cartitems, c) :
                                       i.product = p).quantity
                              ELSE 0]]
    /\ last' = [op |-> "cart_add_begin", a |-> c, b |-> w, raised |-> "none"]
    /\ UNCHANGED <<shopVars, catalog, accounts>>

\* get_or_create: self.get(cart=cart, product=product); the instance found
\* carries the quantity read.
CartAddGet(w) ==
    LET me == procs[w]
        found == {i \in CartItemsOf(cartitems, me.target) : i.product = me.product}
    IN /\ me.pc = "cartitem_get"
       /\ procs' = IF found = {}
                   THEN [procs EXCEPT ![w].pc = "cartitem_create"]
                   ELSE [procs EXCEPT ![w].pc = "cartitem_save",
                            ![w].read = (CHOOSE i \in found : TRUE).quantity]
       /\ last' = [op |-> "cart_add_get", a |-> me.target, b |-> w, raised |-> "none"]
       /\ UNCHANGED <<shopVars, catalog, accounts>>

\* Variant: get_or_create lets the IntegrityError of its INSERT through.
CartItem_create_or_get_raise(cis, c, p, q, act) ==
    LET found == {i \in CartItemsOf(cis, c) : i.product = p}
    IN IF found = {}
       THEN [its |-> cis \cup {[cart |-> c, product |-> p, quantity |-> q,
                                is_active |-> act]},
             created |-> TRUE, read |-> q, raised |-> "none"]
       ELSE [its |-> cis, created |-> FALSE, read |-> 0,
             raised |-> "IntegrityError"]

\* get_or_create after DoesNotExist: create(**params) in a savepoint; the
\* IntegrityError of unique_together (cart, product) is caught and the row
\* another request inserted meanwhile is fetched.
CartItem_create_or_get(cis, c, p, q, act) ==
    LET found == {i \in CartItemsOf(cis, c) : i.product = p}
    IN IF found = {}
       THEN [its |-> cis \cup {[cart |-> c, product |-> p, quantity |-> q,
                                is_active |-> act]},
             created |-> TRUE, read |-> q, raised |-> "none"]
       ELSE [its |-> cis, created |-> FALSE,
             read |-> (CHOOSE i \in found : TRUE).quantity, raised |-> "none"]

CartAddCreate(w) ==
    LET me == procs[w]
        r == CartItem_create_or_get(cartitems, me.target, me.product,
                                    me.quantity, me.is_active)
    IN /\ me.pc = "cartitem_create"
       /\ cartitems' = r.its
       /\ procs' = [procs EXCEPT
             ![w].pc = IF r.created \/ r.raised # "none" THEN "done"
                       ELSE "cartitem_save",
             ![w].read = r.read,
             ![w].retried = ~r.created,
             ![w].raised = r.raised]
       /\ last' = [op |-> "cart_add_create", a |-> me.target, b |-> w,
                   raised |-> r.raised]
       /\ UNCHANGED <<price, orders, orderitems, nextItemId, carts, wishlists,
                      toggles, reviewVars, response, catalog, accounts>>

\* if not created: cart_item.quantity += quantity; cart_item.is_active =
\* is_active; cart_item.save(): the UPDATE writes the instance's fields.
CartAddSave(w) ==
    LET me == procs[w]
        row == {i \in CartItemsOf(cartitems, me.target) : i.product = me.product}
    IN /\ me.pc = "cartitem_save"
       /\ cartitems' = (cartitems \ row)
             \cup {[cart |-> me.target, product |-> me.product,
                     quantity |-> me.read + me.quantity,
                     is_active |-> me.is_active]}
       /\ procs' = [procs EXCEPT ![w].pc = "done"]
       /\ last' = [op |-> "cart_add_save", a |-> me.target, b |-> w,
                   raised |-> "none"]
       /\ UNCHANGED <<price, orders, orderitems, nextItemId, carts, wishlists,
                      toggles, reviewVars, response, catalog, accounts>>

\* ===================================================================

Init ==
    /\ price \in [Products -> Prices]
    /\ orders = [o \in OrderIds |-> NoOrder]
    /\ orderitems = {}
    /\ nextItemId = 1
    /\ carts = {}
    /\ cartitems = {}
    /\ wishlists = [u \in Users |-> [exists |-> FALSE, products |-> {}]]
    /\ last = [op |-> "init", a |-> "", b |-> "", raised |-> "none"]
    /\ toggles = [n |-> 0, before |-> {}]
    /\ reviews = {}
    /\ nextReviewId = 1
    /\ ratings = [p \in Products |-> NoRating]
    /\ response = [rows |-> {}, total |-> 0]
    /\ catalog = {}
    /\ accounts = {}
    /\ procs = [w \in Workers |-> Idle]

NextOrder ==
    \/ \E d \in OrderItemLists : OrderCreate("o1", "u1", "pending", d)
    \/ \E s \in RequestStatuses, h \in BOOLEAN, d \in OrderItemLists :
          OrderUpdate("u1", "o1", "u1", s, h, d)
    \/ \E o \in {"o1"}, p \in Products, q \in Quantities : AdminAddItem(o, p, q)
    \/ \E i \in orderitems, p \in Products, q \in Quantities :
          AdminChangeItem(i, p, q)
    \/ \E p \in Products, v \in Prices : ProductUpdatePrice(p, v)

SpecOrder == Init /\ [][NextOrder]_vars

\* Carts: the anonymous session k1 and the user u1 fill their carts; u1 logs
\* in on session k1, on the cart-less session k2, or on a session without key.
NextCart ==
    \/ \E u \in {"u1", None}, k \in {"k1", None}, d \in CartItemLists :
          CartCreate(u, k, d)
    \/ \E u \in {"u1", None}, k \in {"k1", None}, d \in CartItemLists :
          CartUpdate(u, k, d)
    \/ \E k \in SessionKeys \cup {None} : Login("u1", k)

SpecCart == Init /\ [][NextCart]_vars

NextWish ==
    \/ \E u \in Users, p \in Products : WishlistCreate(u, p)
    \/ \E u \in Users, p \in Products : WishlistUpdate(u, p)

SpecWish == Init /\ [][NextWish]_vars

NextReview ==
    \/ \E p \in Products, r \in Ratings : ReviewCreate(p, r)
    \/ \E i \in reviews, p \in Products, r \in Ratings : ReviewUpdate(i, p, r)
    \/ \E i \in reviews : ReviewDestroy(i)

SpecReview == Init /\ [][NextReview]_vars

\* Order visibility: the customers u1 and u3 and the administrator u2 create
\* orders, hand them over (user is a writable field of the update) and list.
NextOrderOwner ==
    \/ \E o \in OrderIds, u \in Users : OrderCreate(o, u, "pending", <<>>)
    \/ \E req \in Users, o \in OrderIds, u \in Users :
          OrderUpdate(req, o, u, "pending", FALSE, <<>>)
    \/ \E req \in Users : OrderList(req)

SpecOrderOwner == Init /\ [][NextOrderOwner]_vars

\* Wishlist visibility: the wishlist requests and the listing.
NextWishList ==
    \/ \E u \in Users, p \in {"p1"} : WishlistCreate(u, p)
    \/ \E u \in Users, p \in {"p1"} : WishlistUpdate(u, p)
    \/ \E req \in Users : WishlistList(req)

SpecWishList == Init /\ [][NextWishList]_vars

\* Cart display: the session k1 fills and reads its cart, prices change.
NextCartView ==
    \/ \E d \in CartItemLists : CartCreate(None, "k1", d)
    \/ \E d \in CartItemLists : CartUpdate(None, "k1", d)
    \/ CartRetrieve(None, "k1")
    \/ \E p \in Products, v \in Prices : ProductUpdatePrice(p, v)

SpecCartView == Init /\ [][NextCartView]_vars

\* Catalog: products with two ids, one category.
NextCatalog ==
    \/ \E x \in CatalogIds, n \in CatalogNames : CatalogCreate("Product", x, n)
    \/ \E x \in CatalogIds, n \in CatalogNames : CatalogUpdate("Product", x, n)
    \/ \E x \in CatalogIds : CatalogDestroy("Product", x)
    \/ \E n \in CatalogNames : CatalogCreate("Category", "x1", n)
    \/ \E n \in CatalogNames : CatalogUpdate("Category", "x1", n)

SpecCatalog == Init /\ [][NextCatalog]_vars

\* Accounts: the two manager calls with every email, password and flags.
NextAccounts ==
    \/ \E m \in Emails, pw \in Passwords, x \in ExtraFields : CreateUser(m, pw, x)
    \/ \E m \in Emails, pw \in Passwords, x \in ExtraFields :
          CreateSuperuser(m, pw, x)

SpecAccounts == Init /\ [][NextAccounts]_vars

\* Item writes statement by statement: the order o1 is created without items,
\* then each worker serves one request that writes an item of it.
NextOrderRace ==
    \/ OrderCreate("o1", "u1", "pending", <<>>)
    \/ \E w \in Workers, p \in Products, q \in Quantities :
          ItemWriteBegin(w, "o1", p, q)
    \/ \E w \in Workers : ItemWriteInsert(w)
    \/ \E w \in Workers : ItemWriteSum(w)
    \/ \E w \in Workers : ItemWriteSave(w)
    \/ \E w \in Workers : ItemWriteFail(w)

SpecOrderRace == Init /\ [][NextOrderRace]_vars

\* Cart adds statement by statement: the session k1 gets its cart (c1, the
\* first cart) before any request is in flight; then each worker serves one
\* add to it, and u1 may log in on the session meanwhile.
NextCartRace ==
    \/ /\ \A w \in Workers : procs[w].pc = "idle"
       /\ \E d \in CartItemLists : CartCreate(None, "k1", d)
    \/ \E w \in Workers, p \in Products, q \in Quantities :
          CartAddBegin(w, "c1", p, q, TRUE)
    \/ \E w \in Workers : CartAddGet(w)
    \/ \E w \in Workers : CartAddCreate(w)
    \/ \E w \in Workers : CartAddSave(w)
    \/ Login("u1", "k1")

SpecCartRace == Init /\ [][NextCartRace]_vars

\* The whole program: all groups of requests side by side.  The claims
\* are stated under the group each is about, which the other groups' steps
\* never touch (every action leaves the other groups' variables unchanged).
Next ==
    \/ NextOrder \/ NextCart \/ NextWish \/ NextReview
    \/ NextOrderOwner \/ NextWishList \/ NextCartView
    \/ NextOrderRace \/ NextCatalog \/ NextAccounts \/ NextCartRace

Spec == Init /\ [][Next]_vars


\* ===================================================================
\* Claims
\* ===================================================================

ItemMutations ==
    {"order_create", "order_update_items", "admin_add_item", "admin_change_item"}

\* C1: after a completed create, update or delete of an OrderItem of order O
\* (order creation, order update with items, an admin item change), the
\* persisted total_amount of O equals the sum of price_at_order * quantity
\* over O's items.
C1_TotalEqualsItemSum ==
    (last.op \in ItemMutations /\ orders[last.a].exists) =>
        orders[last.a].total_amount = SumItems(ItemsOf(orderitems, last.a))

\* C2: an item made by order creation carries its product's price of that
\* moment, and no later step changes the price_at_order of an existing item
\* (stated for every item, whichever operation made it).
C2_PriceSnapshot ==
    [][\A i \in orderitems' :
          /\ (last'.op = "order_create" /\ ~\E j \in orderitems : j.id = i.id)
                => i.price_at_order = price[i.product]
          /\ \A j \in orderitems :
                j.id = i.id => j.price_at_order = i.price_at_order]_vars

\* C2 witness: an item made by order creation whose product has since got
\* another price.
C2_Witness ==
    /\ last.op = "product_update"
    /\ \E i \in orderitems : i.product = last.a /\ i.price_at_order # price[i.product]

SessionCarts(cs, k) == {r \in cs : r.cart_code = k /\ r.user = None}
UserCarts(cs, u) == {r \in cs : r.user = u}
ItemFor(cis, c, p) == {i \in cis : i.cart = c /\ i.product = p}
Qty(cis, c, p) ==
    IF ItemFor(cis, c, p) = {} THEN 0
    ELSE (CHOOSE i \in ItemFor(cis, c, p) : TRUE).quantity

\* a login step that found the session's user-less cart
LoginWithSessionCart == last'.op = "login" /\ SessionCarts(carts, last'.b) # {}
SourceCart == (CHOOSE r \in SessionCarts(carts, last'.b) : TRUE).cart_id
DestinationCart == (CHOOSE r \in UserCarts(carts', last'.a) : TRUE).cart_id

\* C3: the merge of a login adds, for every product with an active source
\* item, the source quantity to the destination quantity (0 if absent), leaves
\* the destination's items for other products alone, and removes the source
\* cart with its items.
C3_MergeAddsQuantities ==
    [][LoginWithSessionCart =>
        /\ \A p \in Products :
              IF \E i \in ItemFor(cartitems, SourceCart, p) : i.is_active
              THEN Qty(cartitems', DestinationCart, p) =
                      Qty(cartitems, DestinationCart, p) + Qty(cartitems, SourceCart, p)
              ELSE ItemFor(cartitems, SourceCart, p) = {} =>
                      ItemFor(cartitems', DestinationCart, p) =
                          ItemFor(cartitems, DestinationCart, p)
        /\ ~\E r \in carts' : r.cart_id = SourceCart
        /\ CartItemsOf(cartitems', SourceCart) = {}]_vars

C6_LoginMergesSessionCart ==
    [][LoginWithSessionCart =>
        /\ Cardinality(UserCarts(carts', last'.a)) = 1
        /\ \A i \in CartItemsOf(cartitems, SourceCart) :
              i.is_active => ItemFor(cartitems', DestinationCart, i.product) # {}
        /\ SessionCarts(carts', last'.b) = {}]_vars

\* C7: a login on a session without key, or whose key names no user-less
\* cart, changes no cart and no cart item, creates no cart for the user, and
\* raises nothing.
C7_LoginWithoutSessionCartNoop ==
    [][(last'.op = "login" /\ (last'.b = None \/ SessionCarts(carts, last'.b) = {})) =>
        /\ carts' = carts
        /\ cartitems' = cartitems
        /\ last'.raised = "none"]_vars

\* C7 witness: a login found no session cart while other carts hold items,
\* and the user still has no cart.
C7_Witness ==
    /\ last.op = "login" /\ last.raised = "none"
    /\ SessionCarts(carts, last.b) = {}
    /\ UserCarts(carts, last.a) = {}
    /\ cartitems # {}

\* C8: merging a source cart without items leaves the cart items unchanged
\* and raises nothing; a login after the source is gone does the same.
C8_EmptySourceNoop ==
    [][(last'.op = "login"
          /\ \A r \in SessionCarts(carts, last'.b) :
                CartItemsOf(cartitems, r.cart_id) = {}) =>
        /\ cartitems' = cartitems
        /\ last'.raised = "none"]_vars

WishlistOps == {"wishlist_create", "wishlist_update"}

\* C9: a wishlist request of user u for product p creates the wishlist with
\* p when u has none, removes p when the wishlist holds it, adds p when it
\* does not, and changes the membership of no other product.
C9_Toggle ==
    [][last'.op \in WishlistOps =>
        LET w == wishlists[last'.a]
            w2 == wishlists'[last'.a]
            p == last'.b
        IN /\ w2.exists
           /\ ~w.exists => p \in w2.products
           /\ (w.exists /\ p \in w.products) => p \notin w2.products
           /\ (w.exists /\ p \notin w.products) => p \in w2.products
           /\ \A q \in Products \ {p} : (q \in w2.products) <=> (q \in w.products)
           /\ \A u \in Users \ {last'.a} : wishlists'[u] = wishlists[u]]_vars

\* C9 witness: a create request removed its product from an existing
\* wishlist and left the other product in it.
C9_Witness ==
    /\ last.op = "wishlist_create"
    /\ wishlists[last.a].products = Products \ {last.b}
    /\ toggles.n = 1 /\ last.b \in toggles.before

\* C10: two wishlist requests in a row for the same user and product leave
\* the user's product set as it was before the first (empty if there was no
\* wishlist).
C10_ToggleTwice ==
    toggles.n = 2 => wishlists[last.a].products = toggles.before

\* C10 witness: the second of two requests in a row, on a wishlist that held
\* the product before the first.
C10_Witness ==
    /\ toggles.n = 2
    /\ last.b \in toggles.before
    /\ last.op = "wishlist_update"

\* C10 witness of the other start: the pair began without a wishlist.
C10_WitnessFromNothing ==
    /\ toggles.n = 2 /\ toggles.before = {} /\ wishlists[last.a].products = {}

ReviewOps == {"review_create", "review_update", "review_destroy"}

\* C11: after a completed create, update or delete of a review of product P
\* (the product the review had before the write, and the one it has after),
\* P's ProductRating has total_ratings = the number of reviews now on P and
\* average_rating = their mean, 0.0 when there is none.
C11_RatingMatchesReviews ==
    last.op \in ReviewOps =>
        \A P \in {last.a, last.b} :
            LET S == ReviewsOf(reviews, P)
            IN /\ ratings[P].exists
               /\ ratings[P].total_ratings = Cardinality(S)
               /\ ratings[P].average.num * Cardinality(S) =
                      SumRatings(S) * ratings[P].average.den
               /\ S = {} => ratings[P].average.num = 0

\* the body of "add to cart": one unit of product p
AddOne(p) == <<[product |-> p, quantity |-> 1, is_active |-> TRUE]>>

\* C12: "add to cart" of product p on the session with key k: afterwards
\* there is exactly one cart with code k (the one there was, if any) and
\* exactly one item for p in it, whose quantity is 1 on a new cart and the
\* previous quantity plus 1 otherwise.  Only steps that record an anonymous
\* cart creation can be such a step.
C12_AddToCart ==
    [][(last'.op = "cart_create" /\ last'.a = None) =>
        \A k \in SessionKeys, p \in Products :
          CartCreate(None, k, AddOne(p)) =>
            LET cs == {r \in carts : r.cart_code = k}
                cs2 == {r \in carts' : r.cart_code = k}
                c == (CHOOSE r \in cs2 : TRUE).cart_id
            IN /\ Cardinality(cs2) = 1
               /\ cs # {} => cs2 = cs
               /\ Cardinality(ItemFor(cartitems', c, p)) = 1
               /\ Qty(cartitems', c, p) =
                     IF cs = {} THEN 1 ELSE Qty(cartitems, c, p) + 1]_vars

\* C12 witness: a second "add to cart" on the same session and product has
\* brought the item to quantity 2.
C12_Witness ==
    /\ last.op = "cart_create" /\ last.a = None
    /\ Cardinality({r \in carts : r.cart_code = last.b}) = 1
    /\ \E r \in carts : r.cart_code = last.b
          /\ \E i \in CartItemsOf(cartitems, r.cart_id) : i.quantity = 2

\* the cart a requester's PUT/PATCH addresses
RequestCart(u, k) == (CHOOSE r \in Cart_get_queryset(carts, u, k) : TRUE).cart_id

\* C13: a cart update naming an item already in the cart with a new quantity
\* q leaves that item with quantity q, and changes no other cart item.
C13_QuantityReplaced ==
    [][\A u \in Users \cup {None}, k \in SessionKeys \cup {None},
         d \in CartItemData :
          (CartUpdate(u, k, <<d>>)
             /\ ItemFor(cartitems, RequestCart(u, k), d.product) # {}) =>
            /\ Qty(cartitems', RequestCart(u, k), d.product) = d.quantity
            /\ cartitems' \ ItemFor(cartitems', RequestCart(u, k), d.product) =
                  cartitems \ ItemFor(cartitems, RequestCart(u, k), d.product)]_vars

\* the (product, quantity) pairs of a list and of an order's items
PairsOfList(d) == {[product |-> d[n].product, quantity |-> d[n].quantity] :
                     n \in 1..Len(d)}
PairsOfItems(S) == {[product |-> i.product, quantity |-> i.quantity] : i \in S}

\* C14: an order update with an item list deletes every item the order had
\* and creates one item per supplied pair, so that the order's items are then
\* exactly the supplied list, and total_amount is the sum over them.
C14_UpdateReplacesItems ==
    [][\A req \in Users, o \in OrderIds, u \in Users, s \in RequestStatuses,
         d \in OrderItemLists :
          OrderUpdate(req, o, u, s, TRUE, d) =>
            /\ PairsOfItems(ItemsOf(orderitems', o)) = PairsOfList(d)
            /\ Cardinality(ItemsOf(orderitems', o)) = Len(d)
            /\ \A i \in ItemsOf(orderitems, o) :
                  ~\E j \in orderitems' : j.id = i.id
            /\ orders'[o].total_amount = SumItems(ItemsOf(orderitems', o))]_vars

\* C15: an order update whose item replacement raises leaves the order with
\* exactly the items it had before the request.
C15_ReplacementAllOrNothing ==
    [][(last'.op = "order_update_items" /\ last'.raised # "none") =>
          ItemsOf(orderitems', last'.a) = ItemsOf(orderitems, last'.a)]_vars

\* C15 witness: an item replacement has failed on an order that holds items.
C15_Witness ==
    /\ last.op = "order_update_items" /\ last.raised # "none"
    /\ ItemsOf(orderitems, last.a) # {}

\* C16: every cart has an owning user and no cart_code, or a cart_code and
\* no owning user.
C16_CartIdentityExclusive ==
    \A r \in carts : (r.user = None) # (r.cart_code = None)

\* C16 witness: after a login, a user-owned and a session-owned cart exist.
C16_Witness ==
    /\ last.op = "login"
    /\ \E r \in carts : r.user # None
    /\ \E r \in carts : r.cart_code # None

\* C17: an order creation never ends in a uniqueness conflict, also when its
\* item list names a product twice, and no order holds two items for one
\* product.
C17_NoUniquenessConflict ==
    /\ last.op = "order_create" => last.raised = "none"
    /\ \A i, j \in orderitems :
          (i.order = j.order /\ i.product = j.product) => i = j

\* C18: an order listing by a requester who is not an administrator holds
\* exactly the existing orders whose user is the requester, and a listing by
\* an administrator holds every existing order.
C18_OrderVisibility ==
    last.op = "order_list" =>
        response.rows = {o \in OrderIds :
                           /\ orders[o].exists
                           /\ is_staff(last.a) \/ orders[o].user = last.a}

\* C18 witness: a customer lists while holding an order, and another
\* customer's and the administrator's orders exist and are not in the rows.
C18_Witness ==
    /\ last.op = "order_list" /\ ~is_staff(last.a)
    /\ \E o \in response.rows : orders[o].user = last.a
    /\ \E o \in OrderIds : orders[o].exists /\ orders[o].user # last.a
                           /\ o \notin response.rows

\* C18 witness: the administrator lists and sees two customers' orders.
C18_WitnessAdmin ==
    /\ last.op = "order_list" /\ is_staff(last.a)
    /\ \E o1, o2 \in response.rows :
          /\ orders[o1].user # orders[o2].user
          /\ ~is_staff(orders[o1].user) /\ ~is_staff(orders[o2].user)

\* the users who have a wishlist
WishlistOwners == {u \in Users : wishlists[u].exists}

\* C19 as stated: a wishlist listing holds only the requester's wishlist
\* when the requester is not an administrator, and every user's wishlist
\* when the requester is an administrator.
C19_AdminSeesAllWishlists ==
    last.op = "wishlist_list" =>
        response.rows = IF is_staff(last.a) THEN WishlistOwners
                        ELSE WishlistOwners \cap {last.a}

\* C19 amended: a wishlist listing holds only the requester's own wishlist,
\* for an administrator as for any other requester.
C19_OwnWishlistOnly ==
    last.op = "wishlist_list" => response.rows = WishlistOwners \cap {last.a}

\* C19 witness: the administrator lists, has a wishlist, a customer has one
\* as well, and the rows hold the administrator's only.
C19_Witness ==
    /\ last.op = "wishlist_list" /\ is_staff(last.a)
    /\ response.rows = {last.a}
    /\ \E u \in WishlistOwners : u # last.a

RECURSIVE ActiveTotal(_, _)
\* over the products P: price * quantity of the cart's active item, if any
ActiveTotal(c, P) ==
    IF P = {} THEN 0
    ELSE LET p == CHOOSE x \in P : TRUE
             act == {i \in ItemFor(cartitems, c, p) : i.is_active}
         IN (IF act = {} THEN 0
             ELSE price[p] * (CHOOSE i \in act : TRUE).quantity)
            + ActiveTotal(c, P \ {p})

\* C20: the total a cart is displayed with is the sum, over its items with
\* is_active true, of the product's price at the time of the display times
\* the quantity.
C20_CartTotalLiveActive ==
    last.op = "cart_retrieve" => response.total = ActiveTotal(last.a, Products)

\* C20 witness: a displayed cart holds an inactive item, whose row remains
\* and adds nothing, and an active item counted at the current price 2.
C20_Witness ==
    /\ last.op = "cart_retrieve"
    /\ \E i, j \in CartItemsOf(cartitems, last.a) :
          /\ ~i.is_active /\ j.is_active /\ price[j.product] = 2
          /\ response.total = 2 * j.quantity

\* C21: in every state, also between the statements of an item write and
\* after a failed recomputation, every order's total_amount equals the sum
\* over the items committed for it.
C21_NoStaleTotalObservable ==
    \A o \in OrderIds :
        orders[o].exists =>
            orders[o].total_amount = SumItems(ItemsOf(orderitems, o))

\* the requests in flight have all ended without an exception
AllCompleted == \A w \in Workers : procs[w].pc = "done" /\ procs[w].raised = "none"

\* C25: when two concurrent item writes on one order have both completed,
\* the order's total_amount equals the sum over its items.
C25_NoLostTotalUpdate ==
    (AllCompleted /\ \A w \in Workers : procs[w].target = "o1") =>
        orders["o1"].total_amount = SumItems(ItemsOf(orderitems, "o1"))

C22_WitnessConflict ==
    /\ last.op = "catalog_create" /\ last.raised = "IntegrityError"
    /\ RowAt(catalog, last.a, last.b) = {}

C23_WitnessEmpty ==
    last.op = "create_user" /\ last.email = <<>> /\ last.raised = "ValueError"

\* the call passes is_staff or is_superuser as something other than True
FlagNotTrue(extra) ==
    \E name \in DOMAIN extra \cap {"is_staff", "is_superuser"} :
        extra[name] # "True"

\* C24: every user create_superuser adds has is_staff and is_superuser
\* True; a call that passes is_staff or is_superuser as anything other than
\* True raises ValueError and leaves the users as they were.
C24_CreateSuperuser ==
    [][last'.op = "create_superuser" =>
        /\ accounts \subseteq accounts'
        /\ \A u \in accounts' \ accounts :
              u.is_staff = "True" /\ u.is_superuser = "True"
        /\ last'.raised = "none" => Cardinality(accounts' \ accounts) = 1
        /\ FlagNotTrue(last'.extra) =>
              (last'.raised = "ValueError" /\ accounts' = accounts)]_vars

\* C24 witness: a superuser was created by a call without flag arguments.
C24_Witness ==
    /\ last.op = "create_superuser" /\ last.raised = "none" /\ last.extra = <<>>
    /\ \E u \in accounts : /\ u.email = normalize_email(last.email)
                           /\ u.is_staff = "True" /\ u.is_superuser = "True"

\* C24 witness: a call with is_staff other than True has raised ValueError.
C24_WitnessRefused ==
    /\ last.op = "create_superuser" /\ last.raised = "ValueError"
    /\ last.email # <<>> /\ FlagNotTrue(last.extra)

\* C26: in every state reached by concurrent adds to one cart and a login
\* merge, at most one CartItem exists per (cart, product) and no request
\* has failed with a duplicate-key error.
C26_NoDuplicateKeyRace ==
    /\ \A i, j \in cartitems :
          (i.cart = j.cart /\ i.product = j.product) => i = j
    /\ \A w \in Workers : procs[w].raised # "IntegrityError"
    /\ last.raised # "IntegrityError"

\* C26 witness: two adds of one product have both ended, one of them after
\* its INSERT met the row the other had inserted meanwhile.
C26_Witness ==
    /\ \A w \in Workers : procs[w].pc = "done" /\ procs[w].raised = "none"
    /\ procs["w1"].product = procs["w2"].product
    /\ \E w \in Workers : procs[w].retried
    /\ Cardinality(ItemFor(cartitems, "c1", procs["w1"].product)) = 1

\* C26 witness: a login on the session ran while an add was in flight.
C26_WitnessLogin ==
    /\ last.op = "login"
    /\ \E w \in Workers : procs[w].pc \in {"cartitem_create", "cartitem_save"}

\* C27: when two adds of quantities a and b of one product, both begun
\* while the cart held the product at quantity q, have both completed, the
\* item's quantity is q + a + b.
C27_NoLostIncrement ==
    (/\ \A w \in Workers : procs[w].pc = "done" /\ procs[w].raised = "none"
     /\ procs["w1"].target = procs["w2"].target
     /\ procs["w1"].product = procs["w2"].product
     /\ procs["w1"].base = procs["w2"].base
     /\ procs["w1"].base >= 1) =>
        Qty(cartitems, procs["w1"].target, procs["w1"].product) =
            procs["w1"].base + procs["w1"].quantity + procs["w2"].quantity

\* C28: an order is owned by the requester who created it, and no create or
\* update request by a requester who is not an administrator changes the
\* owner of an order.
C28_OwnerIsCreatorForever ==
    [][/\ last'.op = "order_create" => orders'[last'.a].user = last'.b
       /\ (last'.op \in {"order_update", "order_update_items"}
             /\ ~is_staff(last'.b)) =>
            \A o \in OrderIds :
                orders[o].exists => orders'[o].user = orders[o].user]_vars

\* C29: after an order creation that failed, neither the order nor any item
\* of it exists.
C29_CreateAllOrNothing ==
    (last.op = "order_create" /\ last.raised # "none") =>
        /\ ~orders[last.a].exists
        /\ ItemsOf(orderitems, last.a) = {}

\* C30: an order update whose item replacement fails leaves the order's
\* status and user as they were before the request.
C30_FailedUpdateKeepsFields ==
    [][(last'.op = "order_update_items" /\ last'.raised # "none") =>
          /\ orders'[last'.a].status = orders[last'.a].status
          /\ orders'[last'.a].user = orders[last'.a].user]_vars

====
